---- MODULE Spec2Model ----
(***************************************************************************)
(* A model of the ImageCompressor controller of src/js/main.js: the event  *)
(* handlers bound in bindEvents, the asynchronous continuations they       *)
(* start (FileReader.onload, Image.onload, the canvas.toBlob callback) and *)
(* the pure helpers validateFile, the resize step and formatFileSize.      *)
(*                                                                         *)
(* The bytes of an encoded blob are kept symbolically: the file they were  *)
(* encoded from, the surface size, the media type and the quality          *)
(* fraction.  The styling of the upload area (its border colour, set by    *)
(* the dragover, dragleave and drop handlers) is left out.                 *)
(***************************************************************************)
EXTENDS Integers, Sequences, FiniteSets, Bags, TLC

(***************************************************************************)
(* Bounds of the model.                                                    *)
(***************************************************************************)
MaxRuns == 3        \* compressImage calls in one behaviour
MaxPending == 3     \* continuations (onload, toBlob, reader) pending at once
DimSpread == 3      \* bitmap sides are taken this close to 1 and to maxSize
MaxSaves == 7       \* saveToHistory calls in one behaviour
ByteSpread == 8     \* byte counts are taken this close to 0 and to the powers of k

(***************************************************************************)
(* Media types.                                                            *)
(***************************************************************************)
TypeJpeg == "image/jpeg"
TypePng == "image/png"
TypeGif == "image/gif"

\* The candidate types of the validation specification: every pre . core . post.
TypePres == {"", "x", " "}
TypeCores == {TypeJpeg, TypePng, TypeGif, "image/", "jpeg", "png", "",
              "image/jpg", "IMAGE/png", "text/png"}
TypePosts == {"", "-x", ";", "2"}
CandidateTypes == {pre \o core \o post :
                     pre \in TypePres, core \in TypeCores, post \in TypePosts}

(***************************************************************************)
(* Files.  null stands for an absent candidate (files[0] of an empty       *)
(* list).  width and height are those of the bitmap the host decoder makes *)
(* of the bytes; the controller never reads them from the file itself.     *)
(***************************************************************************)
null == [absent |-> TRUE]

MkFile(n, t, s, w, h) ==
    [name |-> n, type |-> t, size |-> s, width |-> w, height |-> h]

FileA == MkFile("a.jpg", TypeJpeg, 1048576, 3000, 2000)
FileB == MkFile("b.png", TypePng, 1536, 100, 100)
FileG == MkFile("g.gif", TypeGif, 2048, 10, 10)

Files == {FileA, FileB, FileG}
Candidates == Files \cup {null}

\* The positions of the quality slider the user moves it to, and its default.
SliderDefault == 80
SliderValues == {30, 90}


VARIABLES
    currentFile,        \* this.currentFile
    sliderValue,        \* this.qualitySlider.value
    qualityValue,       \* this.qualityValue.textContent
    previewDisplay,     \* this.previewContainer.style.display
    originalSize,       \* this.originalSize.textContent
    originalPreview,    \* this.originalPreview.src
    compressedPreview,  \* this.compressedPreview.src, the blob behind it, the call that set it
    compressedSize,     \* this.compressedSize.textContent
    runs,               \* compressImage calls whose continuations are pending
    readers,            \* the files of displayImage's FileReaders whose onload is pending, a bag
    handles,            \* object URLs created and not revoked
    nextRun,            \* number of compressImage calls so far
    alerts,             \* alert dialogs open, each blocking the handler that raised it
    saved,              \* the file the last handler saved
    candidate,          \* the candidate last given to validateFile
    verdict,            \* what validateFile returned for it
    bitmap,             \* the bitmap of the resize specification
    surface,            \* the canvas size the resize step gave it
    batch,              \* the files handleMultipleFiles has yet to look at, its alert being open
    byteCount,          \* the byte count of the formatting specification
    formatted,          \* what formatFileSize returned for it
    compressionHistory, \* this.compressionHistory
    localStorage,       \* the item compressionHistory of localStorage
    saveLog             \* every item saveToHistory was asked to save, oldest first

\* The variables of the specifications of formatFileSize and saveToHistory.
sideVars == <<byteCount, formatted, compressionHistory, localStorage, saveLog>>

vars == <<currentFile, sliderValue, qualityValue, previewDisplay,
          originalSize, originalPreview, compressedPreview, compressedSize,
          runs, readers, handles, nextRun, alerts, saved,
          candidate, verdict, bitmap, surface, batch, sideVars>>


(***************************************************************************)
(* validateFile.  The regular expression /image\/(jpeg|png)/ carries no    *)
(* anchors: String.prototype.match finds it anywhere in the type.          *)
(***************************************************************************)
\* The pattern p occurs in t.
Occurs(p, t) ==
    \E i \in 1..(Len(t) - Len(p) + 1) : SubSeq(t, i, i + Len(p) - 1) = p

TypeMatches(t) == Occurs("image/jpeg", t) \/ Occurs("image/png", t)

validateFile(file) ==
    IF file = null THEN FALSE
    ELSE IF ~TypeMatches(file.type) THEN FALSE
    ELSE TRUE

\* Whether validateFile(file) raises the alert on its way.
validateFileAlerts(file) ==
    IF file = null THEN FALSE
    ELSE ~TypeMatches(file.type)

(***************************************************************************)
(* The resize step of Image.onload.  Math.round(n / d) for n >= 0, d > 0   *)
(* is floor(n / d + 1/2); the products here are far below 2^53, so the     *)
(* double division does not move a quotient across a half.                 *)
(***************************************************************************)
maxSize == 1920

\* A faulty Math.round, for comparison: the quotient is truncated, not rounded.
MathRoundTruncating(n, d) == n \div d

MathRound(n, d) == (2 * n + d) \div (2 * d)

\* A faulty resize step, for comparison: the test against maxSize is missing.
ResizeUnguarded(width, height) ==
    IF width > height
    THEN [width |-> maxSize, height |-> MathRound(height * maxSize, width)]
    ELSE [width |-> MathRound(width * maxSize, height), height |-> maxSize]

Resize(width, height) ==
    IF width > maxSize \/ height > maxSize
    THEN IF width > height
         THEN [width |-> maxSize, height |-> MathRound(height * maxSize, width)]
         ELSE [width |-> MathRound(width * maxSize, height), height |-> maxSize]
    ELSE [width |-> width, height |-> height]

(***************************************************************************)
(* formatFileSize.  bytes / 1024^i is exact in a double; toFixed(2) rounds *)
(* it to hundredths, half up, and parseFloat then drops the trailing zeros *)
(* of the fraction before the number is turned into a string again.        *)
(***************************************************************************)
k == 1024

sizes == <<"Bytes", "KB", "MB">>

RECURSIVE Pow(_, _)
Pow(b, e) == IF e = 0 THEN 1 ELSE b * Pow(b, e - 1)

\* Math.floor(Math.log(bytes) / Math.log(k)) for bytes >= 1.
RECURSIVE FloorLog(_)
FloorLog(bytes) == IF bytes < k THEN 0 ELSE 1 + FloorLog(bytes \div k)

\* (bytes / k^i).toFixed(2), in hundredths: the quotient rounded to
\* hundredths, a half going up.  The whole part is split off first, which
\* keeps the products small; k^i is 1, where nothing is left to round, or even.
ToFixed2(bytes, i) ==
    LET unit == Pow(k, i)
        whole == bytes \div unit
        rest == bytes % unit
    IN  100 * whole + (100 * rest + unit \div 2) \div unit

\* parseFloat of the fixed-point text, turned into a string by the + operator.
NumberText(hundredths) ==
    LET whole == hundredths \div 100
        frac == hundredths % 100
    IN  IF frac = 0 THEN ToString(whole)
        ELSE IF frac % 10 = 0 THEN ToString(whole) \o "." \o ToString(frac \div 10)
        ELSE IF frac < 10 THEN ToString(whole) \o ".0" \o ToString(frac)
        ELSE ToString(whole) \o "." \o ToString(frac)

\* sizes[i]; an index past the table reads undefined.
UnitText(i) == IF i + 1 \in DOMAIN sizes THEN sizes[i + 1] ELSE "undefined"

formatFileSize(bytes) ==
    IF bytes = 0 THEN "0 Bytes"
    ELSE LET i == FloorLog(bytes)
         IN  NumberText(ToFixed2(bytes, i)) \o " " \o UnitText(i)

(***************************************************************************)
(* Values of the Presenter's elements and of the asynchronous work.        *)
(***************************************************************************)
NoSrc == [empty |-> TRUE]       \* an img element whose src is ""
NoText == ""                    \* an element without text
NoBitmap == [none |-> TRUE]
NoSave == [nothing |-> TRUE]    \* no link was clicked
NoItem == [unset |-> TRUE]      \* localStorage without the item

\* The object URL compressImage makes for the file of run id, and the one
\* its toBlob callback makes for the blob.
SourceHandle(id) == [kind |-> "file", run |-> id]
BlobHandle(id) == [kind |-> "blob", run |-> id]

\* canvas.toBlob(callback, type, quality): the host encoder writes image/png
\* when it is asked for a type it does not support.
EncoderType(type) == IF type \in {TypeJpeg, TypePng} THEN type ELSE TypePng

\* canvas.toBlob hands the callback null when the host encoder fails, as it
\* always does for a surface without area.
EncoderFails(width, height) == width = 0 \/ height = 0

\* blob.size: the host encoder's output is the smaller the lower the quality.
EncoderSize(file, quality) == 1 + (file.size * quality) \div 100

Blob(run) ==
    [type |-> EncoderType(run.file.type),
     size |-> EncoderSize(run.file, run.quality),
     from |-> run.file.name, quality |-> run.quality,
     width |-> run.width, height |-> run.height]

(***************************************************************************)
(* compressImage(file, quality): an object URL for the file, an Image      *)
(* loading it, and the onload continuation left pending.  quality is in    *)
(* hundredths (the slider value, which the callers divide by 100); origin  *)
(* names the caller, "file" for handleFile and "slider" for the slider's   *)
(* input handler.                                                          *)
(***************************************************************************)
compressImage(file, quality, origin) ==
    /\ nextRun < MaxRuns
    /\ Cardinality(runs) + BagCardinality(readers) < MaxPending
    /\ nextRun' = nextRun + 1
    /\ runs' = runs \cup {[id |-> nextRun + 1, origin |-> origin,
                           file |-> file, quality |-> quality,
                           stage |-> "decoding", width |-> 0, height |-> 0]}
    /\ handles' = handles \cup {SourceHandle(nextRun + 1)}

\* displayImage(file, this.originalPreview): a FileReader left pending.  Its
\* onload reads nothing but the file, so the pending readers are a bag of files.
displayImage(file) ==
    /\ Cardinality(runs) + BagCardinality(readers) + 1 < MaxPending
    /\ readers' = readers (+) SetToBag({file})

handleFile(file) ==
    /\ currentFile' = file
    /\ previewDisplay' = "block"
    /\ originalSize' = formatFileSize(file.size)
    /\ displayImage(file)
    /\ compressImage(file, sliderValue, "file")
    /\ UNCHANGED <<originalPreview, compressedPreview, compressedSize>>

\* A step of a handler or continuation that raises no alert and saves no
\* file.  None runs while an alert is open: alert() blocks the event loop.
Quiet == alerts = 0 /\ alerts' = 0 /\ saved' = NoSave /\ UNCHANGED batch

\* What validateFile does besides returning: the alert.
validateFileEffect(file) ==
    alerts' = IF validateFileAlerts(file) THEN 1 ELSE 0

\* A faulty intake, for comparison: the result of validateFile is not tested.
IntakeUnchecked(file) ==
    /\ validateFileEffect(file)
    /\ IF file # null
       THEN handleFile(file)
       ELSE UNCHANGED <<currentFile, previewDisplay, originalSize, originalPreview,
                        compressedPreview, compressedSize, runs, readers, handles,
                        nextRun>>

\* The branch the drop and change handlers share.
Intake(file) ==
    /\ validateFileEffect(file)
    /\ IF validateFile(file)
       THEN handleFile(file)
       ELSE UNCHANGED <<currentFile, previewDisplay, originalSize, originalPreview,
                        compressedPreview, compressedSize, runs, readers, handles,
                        nextRun>>

(***************************************************************************)
(* The event handlers of bindEvents.                                       *)
(***************************************************************************)
Drop(file) ==
    /\ alerts = 0
    /\ Intake(file)
    /\ saved' = NoSave
    /\ UNCHANGED <<sliderValue, qualityValue,
                   candidate, verdict, bitmap, surface, batch, sideVars>>

Change(file) ==
    /\ alerts = 0
    /\ Intake(file)
    /\ saved' = NoSave
    /\ UNCHANGED <<sliderValue, qualityValue,
                   candidate, verdict, bitmap, surface, batch, sideVars>>

SliderInput(value) ==
    /\ value # sliderValue
    /\ sliderValue' = value
    /\ qualityValue' = ToString(value) \o "%"
    /\ IF currentFile # null
       THEN compressImage(currentFile, value, "slider")
       ELSE UNCHANGED <<runs, handles, nextRun>>
    /\ UNCHANGED <<currentFile, previewDisplay, originalSize,
                   originalPreview, compressedPreview, compressedSize, readers,
                   candidate, verdict, bitmap, surface, sideVars>>
    /\ Quiet

\* A faulty export, for comparison: it revokes the object URL it has saved.
downloadImageRevoking ==
    /\ alerts = 0
    /\ alerts' = 0
    /\ IF compressedPreview = NoSrc \/ currentFile = null
       THEN saved' = NoSave /\ UNCHANGED <<compressedPreview, handles>>
       ELSE /\ saved' = [download |-> "compressed_" \o currentFile.name,
                         href |-> compressedPreview.src,
                         content |-> compressedPreview.blob]
            /\ compressedPreview' = NoSrc
            /\ handles' = handles \ {compressedPreview.src}
    /\ UNCHANGED <<currentFile, sliderValue, qualityValue, previewDisplay,
                   originalSize, originalPreview, compressedSize,
                   runs, readers, nextRun,
                   candidate, verdict, bitmap, surface, batch, sideVars>>

downloadImage ==
    /\ IF compressedPreview = NoSrc
       THEN saved' = NoSave
       ELSE IF currentFile = null
       THEN saved' = NoSave     \* this.currentFile.name throws
       ELSE saved' = [download |-> "compressed_" \o currentFile.name,
                      href |-> compressedPreview.src,
                      content |-> compressedPreview.blob]
    /\ alerts = 0
    /\ alerts' = 0
    /\ UNCHANGED <<currentFile, sliderValue, qualityValue, previewDisplay,
                   originalSize, originalPreview, compressedPreview, compressedSize,
                   runs, readers, handles, nextRun,
                   candidate, verdict, bitmap, surface, batch, sideVars>>

(***************************************************************************)
(* handleMultipleFiles(files).  compressImage returns a promise that is    *)
(* already settled, so each await resumes the loop before any load event   *)
(* or callback is delivered: the loop runs to its end in one piece, or up  *)
(* to a file whose type validateFile refuses, where alert() holds it until *)
(* the user closes the dialog.  The results it returns are all undefined.  *)
(***************************************************************************)
\* The batches handed to handleMultipleFiles.
Batches == {<<FileA>>, <<FileB, FileA>>, <<FileG, FileB>>, << >>}

\* The position of the first file of files that raises the alert, or 0.
FirstAlert(files) ==
    IF \E i \in 1..Len(files) : validateFileAlerts(files[i])
    THEN CHOOSE i \in 1..Len(files) :
             /\ validateFileAlerts(files[i])
             /\ \A j \in 1..(i - 1) : ~validateFileAlerts(files[j])
    ELSE 0

\* The files the loop hands to compressImage before it ends or is held.
Compressed(files) ==
    SelectSeq(IF FirstAlert(files) = 0 THEN files
              ELSE SubSeq(files, 1, FirstAlert(files)), validateFile)

\* The iterations of the loop over files, up to its end or to an alert.
BatchLoop(files) ==
    LET started == Compressed(files)
    IN  /\ nextRun + Len(started) <= MaxRuns
        /\ Cardinality(runs) + BagCardinality(readers) + Len(started) <= MaxPending
        /\ nextRun' = nextRun + Len(started)
        /\ runs' = runs \cup {[id |-> nextRun + j, origin |-> "batch",
                                file |-> started[j], quality |-> sliderValue,
                                stage |-> "decoding", width |-> 0, height |-> 0] :
                                   j \in 1..Len(started)}
        /\ handles' = handles \cup {SourceHandle(nextRun + j) : j \in 1..Len(started)}
        /\ IF FirstAlert(files) = 0
           THEN alerts' = 0 /\ batch' = << >>
           ELSE /\ alerts' = 1
                /\ batch' = SubSeq(files, FirstAlert(files) + 1, Len(files))

handleMultipleFiles(files) ==
    /\ alerts = 0
    /\ BatchLoop(files)
    /\ saved' = NoSave
    /\ UNCHANGED <<currentFile, sliderValue, qualityValue, previewDisplay,
                   originalSize, originalPreview, compressedPreview, compressedSize,
                   readers, candidate, verdict, bitmap, surface, sideVars>>

\* The user closes the alert: validateFile returns false and its caller goes
\* on, which for handleMultipleFiles is the loop over the files left.
AlertDismissed ==
    /\ alerts = 1
    /\ BatchLoop(batch)
    /\ UNCHANGED <<currentFile, sliderValue, qualityValue, previewDisplay,
                   originalSize, originalPreview, compressedPreview, compressedSize,
                   readers, saved,
                   candidate, verdict, bitmap, surface, sideVars>>

(***************************************************************************)
(* The continuations.                                                      *)
(***************************************************************************)
\* reader.onload of displayImage.
ReaderLoad(file) ==
    /\ BagIn(file, readers)
    /\ readers' = readers (-) SetToBag({file})
    /\ originalPreview' = [data |-> file.name]
    /\ UNCHANGED <<currentFile, sliderValue, qualityValue, previewDisplay,
                   originalSize, compressedPreview, compressedSize,
                   runs, handles, nextRun,
                   candidate, verdict, bitmap, surface, sideVars>>
    /\ Quiet

\* img.onload of compressImage: the resize step, the draw and the toBlob call.
ImageLoad(r) ==
    /\ r \in runs
    /\ r.stage = "decoding"
    /\ LET canvas == Resize(r.file.width, r.file.height)
       IN  runs' = (runs \ {r}) \cup
                     {[r EXCEPT !.stage = "encoding",
                                !.width = canvas.width, !.height = canvas.height]}
    /\ UNCHANGED <<currentFile, sliderValue, qualityValue, previewDisplay,
                   originalSize, originalPreview, compressedPreview, compressedSize,
                   readers, handles, nextRun,
                   candidate, verdict, bitmap, surface, sideVars>>
    /\ Quiet

\* The host decoder fails on the image (its error event), which it may do for
\* any bytes: compressImage sets no onerror, the run just ends.
ImageError(r) ==
    /\ r \in runs
    /\ r.stage = "decoding"
    /\ runs' = runs \ {r}
    /\ UNCHANGED <<currentFile, sliderValue, qualityValue, previewDisplay,
                   originalSize, originalPreview, compressedPreview, compressedSize,
                   readers, handles, nextRun,
                   candidate, verdict, bitmap, surface, sideVars>>
    /\ Quiet

\* A faulty toBlob callback, for comparison: it revokes the file's object URL
\* and shows nothing.
ToBlobCallbackUnshown(r, encoded) ==
    /\ r \in runs
    /\ r.stage = "encoding"
    /\ runs' = runs \ {r}
    /\ handles' = handles \ {SourceHandle(r.id)}
    /\ UNCHANGED <<compressedPreview, compressedSize>>
    /\ UNCHANGED <<currentFile, sliderValue, qualityValue, previewDisplay,
                   originalSize, originalPreview, readers, nextRun,
                   candidate, verdict, bitmap, surface, sideVars>>
    /\ Quiet

\* A faulty toBlob callback, for comparison: without a blob it empties the
\* compressed preview.
ToBlobCallbackClearing(r, encoded) ==
    /\ r \in runs
    /\ r.stage = "encoding"
    /\ runs' = runs \ {r}
    /\ IF EncoderFails(r.width, r.height) \/ ~encoded
       THEN /\ compressedPreview' = NoSrc
            /\ compressedSize' = NoText
            /\ UNCHANGED handles
       ELSE /\ compressedPreview' = [src |-> BlobHandle(r.id), blob |-> Blob(r),
                                      run |-> [id |-> r.id, origin |-> r.origin]]
            /\ compressedSize' = formatFileSize(Blob(r).size)
            /\ handles' = (handles \cup {BlobHandle(r.id)}) \ {SourceHandle(r.id)}
    /\ UNCHANGED <<currentFile, sliderValue, qualityValue, previewDisplay,
                   originalSize, originalPreview, readers, nextRun,
                   candidate, verdict, bitmap, surface, sideVars>>
    /\ Quiet

\* The toBlob callback.  URL.createObjectURL(null) throws before anything is
\* assigned, and the revoke after it is not reached.
ToBlobCallback(r, encoded) ==
    /\ r \in runs
    /\ r.stage = "encoding"
    /\ runs' = runs \ {r}
    /\ IF EncoderFails(r.width, r.height) \/ ~encoded
       THEN UNCHANGED <<compressedPreview, compressedSize, handles>>
       ELSE /\ compressedPreview' = [src |-> BlobHandle(r.id), blob |-> Blob(r),
                                      run |-> [id |-> r.id, origin |-> r.origin]]
            /\ compressedSize' = formatFileSize(Blob(r).size)
            /\ handles' = (handles \cup {BlobHandle(r.id)}) \ {SourceHandle(r.id)}
    /\ UNCHANGED <<currentFile, sliderValue, qualityValue, previewDisplay,
                   originalSize, originalPreview, readers, nextRun,
                   candidate, verdict, bitmap, surface, sideVars>>
    /\ Quiet

(***************************************************************************)
(* The controller: the state the constructor leaves, and its steps.        *)
(***************************************************************************)
\* The fields the constructor sets and the elements as the page gives them.
Rest ==
    /\ currentFile = null
    /\ sliderValue = SliderDefault
    /\ qualityValue = ToString(SliderDefault) \o "%"
    /\ previewDisplay = "none"
    /\ originalSize = NoText
    /\ originalPreview = NoSrc
    /\ compressedPreview = NoSrc
    /\ compressedSize = NoText
    /\ runs = {}
    /\ readers = EmptyBag
    /\ handles = {}
    /\ nextRun = 0
    /\ alerts = 0
    /\ saved = NoSave
    /\ batch = << >>
    /\ compressionHistory = << >>
    /\ localStorage = NoItem
    /\ saveLog = << >>

Init ==
    /\ Rest
    /\ candidate = null
    /\ verdict = << >>
    /\ bitmap = NoBitmap
    /\ surface = NoBitmap
    /\ byteCount = 0
    /\ formatted = NoText

Next ==
    \/ AlertDismissed
    \/ \E file \in Candidates : Drop(file)
    \/ \E file \in Candidates : Change(file)
    \/ \E value \in SliderValues : SliderInput(value)
    \/ downloadImage
    \/ \E file \in Files : ReaderLoad(file)
    \/ \E r \in runs : ImageLoad(r)
    \/ \E r \in runs : ImageError(r)
    \/ \E r \in runs, encoded \in BOOLEAN : ToBlobCallback(r, encoded)

Spec == Init /\ [][Next]_vars

(***************************************************************************)
(* The controller with a caller of handleMultipleFiles.  Nothing on the    *)
(* page calls it: it is reached by a script that holds the controller.     *)
(***************************************************************************)
NextBatch ==
    \/ Next
    \/ \E files \in Batches : handleMultipleFiles(files)

SpecBatch == Init /\ [][NextBatch]_vars

(***************************************************************************)
(* The controller under the host's scheduling: the event loop delivers the *)
(* load event of every reader and every image, and calls every toBlob      *)
(* callback; what the user does, and whether the decoder or the encoder    *)
(* fails, is left open.                                                    *)
(***************************************************************************)
Delivery ==
    /\ \A file \in Files : WF_vars(ReaderLoad(file))
    /\ \A n \in 1..MaxRuns :
          /\ WF_vars(\E r \in runs : r.id = n /\ ImageLoad(r))
          /\ WF_vars(\E r \in runs : r.id = n /\ ToBlobCallback(r, TRUE))

\* The steps of the controller short of the last compressImage call the
\* bound admits, which keeps the graph the delivery is checked on small.
NextLive == Next /\ nextRun' < MaxRuns

SpecLive == Init /\ [][NextLive]_vars /\ Delivery

(***************************************************************************)
(* validateFile alone: a candidate is drawn, validateFile is applied.      *)
(***************************************************************************)
ValidateCandidates ==
    {null} \cup {MkFile("f", type, 1, 1, 1) : type \in CandidateTypes}

InitValidate ==
    /\ Rest
    /\ candidate \in ValidateCandidates
    /\ verdict = << >>
    /\ bitmap = NoBitmap
    /\ surface = NoBitmap
    /\ byteCount = 0
    /\ formatted = NoText

ApplyValidate ==
    /\ verdict = << >>
    /\ verdict' = <<validateFile(candidate)>>
    /\ validateFileEffect(candidate)
    /\ UNCHANGED <<currentFile, sliderValue, qualityValue, previewDisplay,
                   originalSize, originalPreview, compressedPreview, compressedSize,
                   runs, readers, handles, nextRun, saved,
                   candidate, bitmap, surface, batch, sideVars>>

SpecValidate == InitValidate /\ [][ApplyValidate]_vars

(***************************************************************************)
(* The resize step alone: a decoded bitmap is drawn, the step is applied.  *)
(***************************************************************************)
Dims ==
    (1..DimSpread)
        \cup ((maxSize - DimSpread)..(maxSize + DimSpread))
        \cup ((2 * maxSize - DimSpread)..(2 * maxSize + DimSpread))
        \cup {100, 2000, 3000}

InitResize ==
    /\ Rest
    /\ candidate = null
    /\ verdict = << >>
    /\ bitmap \in [width : Dims, height : Dims]
    /\ surface = NoBitmap
    /\ byteCount = 0
    /\ formatted = NoText

ApplyResize ==
    /\ surface = NoBitmap
    /\ surface' = Resize(bitmap.width, bitmap.height)
    /\ UNCHANGED <<currentFile, sliderValue, qualityValue, previewDisplay,
                   originalSize, originalPreview, compressedPreview, compressedSize,
                   runs, readers, handles, nextRun, alerts, saved,
                   candidate, verdict, bitmap, batch, sideVars>>

SpecResize == InitResize /\ [][ApplyResize]_vars

(***************************************************************************)
(* formatFileSize alone: a byte count is drawn, formatFileSize is applied. *)
(***************************************************************************)
ByteCounts ==
    (0..ByteSpread)
        \cup ((k - ByteSpread)..(k + ByteSpread))
        \cup ((k * k - ByteSpread)..(k * k + ByteSpread))
        \cup ((k * k * k - ByteSpread)..(k * k * k + ByteSpread))
        \cup {1029, 1536, 1048576 + 524288}

InitFormat ==
    /\ Rest
    /\ candidate = null
    /\ verdict = << >>
    /\ bitmap = NoBitmap
    /\ surface = NoBitmap
    /\ byteCount \in ByteCounts
    /\ formatted = NoText

ApplyFormat ==
    /\ formatted = NoText
    /\ formatted' = formatFileSize(byteCount)
    /\ UNCHANGED <<currentFile, sliderValue, qualityValue, previewDisplay,
                   originalSize, originalPreview, compressedPreview, compressedSize,
                   runs, readers, handles, nextRun, alerts, saved,
                   candidate, verdict, bitmap, surface, batch,
                   byteCount, compressionHistory, localStorage, saveLog>>

SpecFormat == InitFormat /\ [][ApplyFormat]_vars

(***************************************************************************)
(* saveToHistory alone.  Nothing in the controller calls it; a caller      *)
(* hands it two objects with a size.  The timestamp of an item is kept as  *)
(* the number of the call that read the clock.                             *)
(***************************************************************************)
maxHistoryItems == 5

\* The sizes of the originals and of the compressed blobs handed in.
OriginalSizes == {0, 1536}
CompressedSizes == {512, 1024}

\* ((compressed.size / original.size) * 100).toFixed(1) + '%'
RatioText(compressedBytes, originalBytes) ==
    IF originalBytes = 0
    THEN IF compressedBytes = 0 THEN "NaN%" ELSE "Infinity%"
    ELSE LET tenths == (2 * 1000 * compressedBytes + originalBytes)
                           \div (2 * originalBytes)
         IN  ToString(tenths \div 10) \o "." \o ToString(tenths % 10) \o "%"

historyItem(original, compressed) ==
    [timestamp |-> Len(saveLog) + 1,
     originalSize |-> original.size,
     compressedSize |-> compressed.size,
     ratio |-> RatioText(compressed.size, original.size)]

\* A faulty saveToHistory, for comparison: nothing is ever popped.
saveToHistoryKeeping(original, compressed) ==
    /\ Len(saveLog) < MaxSaves
    /\ compressionHistory' = <<historyItem(original, compressed)>> \o compressionHistory
    /\ localStorage' = compressionHistory'
    /\ saveLog' = Append(saveLog, historyItem(original, compressed))
    /\ UNCHANGED <<currentFile, sliderValue, qualityValue, previewDisplay,
                   originalSize, originalPreview, compressedPreview, compressedSize,
                   runs, readers, handles, nextRun, alerts, saved,
                   candidate, verdict, bitmap, surface, batch,
                   byteCount, formatted>>

saveToHistory(original, compressed) ==
    /\ Len(saveLog) < MaxSaves
    /\ LET unshifted == <<historyItem(original, compressed)>> \o compressionHistory
       IN  compressionHistory' =
               IF Len(unshifted) > maxHistoryItems
               THEN SubSeq(unshifted, 1, Len(unshifted) - 1)
               ELSE unshifted
    /\ localStorage' = compressionHistory'
    /\ saveLog' = Append(saveLog, historyItem(original, compressed))
    /\ UNCHANGED <<currentFile, sliderValue, qualityValue, previewDisplay,
                   originalSize, originalPreview, compressedPreview, compressedSize,
                   runs, readers, handles, nextRun, alerts, saved,
                   candidate, verdict, bitmap, surface, batch,
                   byteCount, formatted>>

NextHistory ==
    \E o \in OriginalSizes, c \in CompressedSizes :
        saveToHistory([size |-> o], [size |-> c])

SpecHistory == Init /\ [][NextHistory]_vars

(***************************************************************************)
(* Properties.                                                             *)
(***************************************************************************)

\* A run that completes after a later run of the same held file has shown
\* its result: both were started by the slider, the later one is displayed.
Superseded(r) ==
    /\ r.origin = "slider"
    /\ r.file = currentFile
    /\ compressedPreview # NoSrc
    /\ compressedPreview.run.origin = "slider"
    /\ compressedPreview.run.id > r.id
    /\ compressedPreview.blob.from = r.file.name

\* C1: when quality change q2 was dispatched for the held file before the run
\* of an earlier quality change q1 completed, then once both runs have
\* completed, in whichever order, the displayed result and the displayed
\* compressed size are those of q2's run: the completion of q1's run after
\* q2's leaves them as q2's run set them.
C1_LaterQualityChangeWins ==
    [][\A r \in runs :
         (Superseded(r) /\ ToBlobCallback(r, TRUE))
            => /\ compressedPreview' = compressedPreview
               /\ compressedSize' = compressedSize]_vars

\* C2: once a new file is held, no completion that belongs to a run of the
\* file held before (its toBlob callback, its original-preview read) changes
\* the compressed preview, the compressed size or the original preview.
C2_StaleCompletionChangesNothing ==
    [][/\ \A r \in runs :
            (r.file # currentFile /\ ToBlobCallback(r, TRUE))
               => UNCHANGED <<compressedPreview, compressedSize>>
       /\ \A file \in Files :
            (file # currentFile /\ ReaderLoad(file))
               => UNCHANGED originalPreview]_vars

\* C3: validateFile returns true exactly when the candidate is present and
\* its declared media type is image/jpeg or image/png.
C3_ValidateExactly ==
    verdict # << >>
        => (verdict[1] <=> (candidate # null /\ candidate.type \in {TypeJpeg, TypePng}))

\* The candidates validateFile rejects.
RejectedCandidates == {file \in Candidates : ~validateFile(file)}

\* C4: a drop or a file selection whose candidate validateFile rejects starts
\* no run and leaves the held file, both previews and both displayed sizes
\* as they were.
C4_RejectedIntakeChangesNothing ==
    [][\A file \in RejectedCandidates :
         (Drop(file) \/ Change(file))
            => UNCHANGED <<currentFile, originalPreview, compressedPreview,
                           originalSize, compressedSize, runs, readers, handles,
                           nextRun>>]_vars

\* A rejected candidate has arrived while a file was held and its result shown.
C4_Witness ==
    /\ alerts = 1
    /\ currentFile # null
    /\ compressedPreview # NoSrc
    /\ runs # {}

\* C5: a bitmap with both sides between 1 and 1920 keeps its size.
C5_ResizeIdentityWhenFits ==
    (/\ surface # NoBitmap
     /\ bitmap.width >= 1 /\ bitmap.height >= 1
     /\ bitmap.width <= 1920 /\ bitmap.height <= 1920)
        => surface = [width |-> bitmap.width, height |-> bitmap.height]

\* The resize step has been applied to a bitmap of exactly 1920 by 1920.
C5_Witness ==
    /\ bitmap = [width |-> 1920, height |-> 1920]
    /\ surface = [width |-> 1920, height |-> 1920]

\* out is n / d rounded to a nearest integer.
Nearest(out, n, d) == 2 * (out * d - n) <= d /\ 2 * (n - out * d) <= d

\* C6: a bitmap with a side above 1920 (its sides may be equal) gets its
\* longer side set to exactly 1920 and its shorter side to the shorter side
\* times 1920 over the longer side, rounded to the nearest integer.
C6_ResizeOversized ==
    (/\ surface # NoBitmap
     /\ (bitmap.width > 1920 \/ bitmap.height > 1920))
        => /\ bitmap.width >= bitmap.height
                => /\ surface.width = 1920
                   /\ Nearest(surface.height, bitmap.height * 1920, bitmap.width)
           /\ bitmap.height >= bitmap.width
                => /\ surface.height = 1920
                   /\ Nearest(surface.width, bitmap.width * 1920, bitmap.height)

\* The resize step has been applied to a bitmap of 3 by 1921, whose shorter
\* side scales to 2.998...
C6_Witness ==
    /\ bitmap = [width |-> 3, height |-> 1921]
    /\ surface = [width |-> 3, height |-> 1920]

\* C7: whenever a file is held and a result is displayed, the result's media
\* type is the held file's.
C7_ResultTypeIsHeldType ==
    (currentFile # null /\ compressedPreview # NoSrc)
        => compressedPreview.blob.type = currentFile.type

\* C8: a saved file is named compressed_ followed by the name of the file its
\* bytes were encoded from, and has that file's media type.
C8_SavedNameMatchesBytes ==
    saved # NoSave
        => \E file \in Files :
              /\ saved.content.from = file.name
              /\ saved.download = "compressed_" \o file.name
              /\ saved.content.type = file.type

\* C9: when handleFile accepts a file, a displayed result that was encoded
\* from another file is discarded by that very step.
C9_AcceptDiscardsPriorResult ==
    [][\A file \in Files :
         (/\ validateFile(file)
          /\ compressedPreview # NoSrc
          /\ compressedPreview.blob.from # file.name
          /\ (Drop(file) \/ Change(file)))
            => compressedPreview' = NoSrc]_vars

\* C10: a completion that replaces the displayed result leaves the replaced
\* result's object URL released; a run that ends, by its callback or by a
\* failed decode, leaves the object URL it made for its file released; and
\* once every run has ended at most one object URL is unreleased.
C10_HandlesReleased ==
    [][/\ \A r \in runs :
            (compressedPreview # NoSrc /\ ToBlobCallback(r, TRUE))
               => compressedPreview.src \notin handles'
       /\ \A r \in runs :
            (ImageError(r) \/ ToBlobCallback(r, TRUE) \/ ToBlobCallback(r, FALSE))
               => SourceHandle(r.id) \notin handles'
       /\ runs' = {} => Cardinality(handles') <= 1]_vars

\* Run n is the run handleFile started for the held file, at the quality the
\* slider shows, and it has not completed.
Accepted(n) ==
    \E r \in runs :
        /\ r.id = n /\ r.origin = "file"
        /\ r.file = currentFile /\ r.quality = sliderValue

\* The Presenter shows what run n encoded, which is the held file at the
\* quality the slider shows; both sizes are displayed and export is possible.
Previewing(n) ==
    /\ currentFile # null
    /\ compressedPreview # NoSrc
    /\ compressedPreview.run.id = n
    /\ compressedPreview.blob.from = currentFile.name
    /\ compressedPreview.blob.quality = sliderValue
    /\ originalSize = formatFileSize(currentFile.size)
    /\ compressedSize = formatFileSize(compressedPreview.blob.size)
    /\ previewDisplay = "block"

\* Since run n was started the user has dropped or selected a candidate or
\* moved the slider: an alert is open, or a later run has been started.
Interrupted(n) == alerts = 1 \/ nextRun > n

\* The decode or the encode of run n has failed: the run has ended and the
\* object URL of its file was not revoked.
Failed(n) ==
    /\ SourceHandle(n) \in handles
    /\ \A r \in runs : r.id # n

\* C11: once handleFile has accepted a file, then unless the user goes on to
\* give another candidate or to move the slider, or the run's decode or
\* encode fails, the compressed preview eventually shows the encoding of that
\* file at the quality current at acceptance, with both formatted sizes
\* displayed and export possible.
C11_AcceptedLeadsToPreviewing ==
    \A n \in 1..MaxRuns :
        Accepted(n) ~> (Previewing(n) \/ Failed(n) \/ Interrupted(n))

\* The run of an accepted file has completed and nothing else is pending.
C11_Witness ==
    /\ \E n \in 1..MaxRuns : Previewing(n) /\ compressedPreview.run.origin = "file"
    /\ runs = {}
    /\ readers = EmptyBag
    /\ originalPreview # NoSrc

\* C12: a step of a run that fails (the load of its image, the failure of
\* its decode, its toBlob callback called without a blob) leaves the
\* displayed result, the displayed compressed size and the held file as
\* they were.
C12_FailedRunChangesNothing ==
    [][\A r \in runs :
         (\/ ImageLoad(r)
          \/ ImageError(r)
          \/ ToBlobCallback(r, FALSE)
          \/ EncoderFails(r.width, r.height) /\ ToBlobCallback(r, TRUE))
            => UNCHANGED <<compressedPreview, compressedSize, currentFile>>]_vars

\* A run started after the displayed result was made has failed, and the
\* result is still displayed.
C12_Witness ==
    /\ compressedPreview # NoSrc
    /\ compressedSize = formatFileSize(compressedPreview.blob.size)
    /\ \E n \in 1..MaxRuns : Failed(n) /\ n > compressedPreview.run.id

\* C13: a validated file that arrives by drop, by selection or as the one
\* file of a batch is the held file, with its formatted size displayed, as
\* soon as the intake step is over.
C13_ValidatedFileIsHeld ==
    [][\A file \in Files :
         (/\ validateFile(file)
          /\ (Drop(file) \/ Change(file) \/ handleMultipleFiles(<<file>>)))
            => /\ currentFile' = file
               /\ originalSize' = formatFileSize(file.size)]_vars

\* hundredths printed with exactly two decimal digits.
TwoDecimals(hundredths) ==
    ToString(hundredths \div 100) \o "."
        \o ToString((hundredths % 100) \div 10) \o ToString(hundredths % 10)

\* C14: 0 is rendered as 0 Bytes, and a positive byte count below 1024^3 as
\* bytes / 1024^i, i = floor(log_1024(bytes)), with exactly two decimal
\* digits, a space and the unit.
C14_TwoDecimalDigits ==
    (formatted # NoText /\ byteCount < k * k * k)
        => formatted =
              IF byteCount = 0 THEN "0 Bytes"
              ELSE TwoDecimals(ToFixed2(byteCount, FloorLog(byteCount)))
                       \o " " \o sizes[FloorLog(byteCount) + 1]

\* C15: a downloadImage step changes nothing of the controller, and when
\* the handler before it was a downloadImage that saved a file, it saves a
\* file of the same name, address and content.
C15_ExportIdempotent ==
    [][downloadImage =>
         /\ UNCHANGED <<currentFile, originalPreview, compressedPreview,
                        originalSize, compressedSize, runs, readers, handles,
                        nextRun, sliderValue, qualityValue>>
         /\ saved # NoSave => saved' = saved]_vars

\* An export has saved the result of the held file, and is possible again.
C15_Witness ==
    /\ saved # NoSave
    /\ compressedPreview # NoSrc
    /\ saved.content = compressedPreview.blob
    /\ saved.download = "compressed_" \o currentFile.name

\* C16: whenever validateFile returns false, the alert has been raised once.
C16_RejectionAlerts ==
    (verdict # << >> /\ ~verdict[1]) => alerts = 1

\* C17: after n saveToHistory calls compressionHistory holds the min(n, 5)
\* most recent items, newest first, and is never longer than 5.
C17_HistoryBounded ==
    LET n == Len(saveLog)
        m == IF n < 5 THEN n ELSE 5
    IN  /\ Len(compressionHistory) = m
        /\ \A i \in 1..m : compressionHistory[i] = saveLog[n - i + 1]

\* More items were saved than the history holds: the oldest were evicted.
C17_Witness ==
    /\ Len(saveLog) > 5 + 1
    /\ Len(compressionHistory) = 5
    /\ compressionHistory[5] = saveLog[Len(saveLog) - 4]

\* The text t ends with the text p.
EndsWith(t, p) ==
    Len(t) >= Len(p) /\ SubSeq(t, Len(t) - Len(p) + 1, Len(t)) = p

\* C18: the text formatFileSize returns ends with a space and one of the
\* units Bytes, KB, MB, for byte counts of 1024^3 and above too.
C18_UnitInTable ==
    formatted # NoText
        => \E i \in DOMAIN sizes : EndsWith(formatted, " " \o sizes[i])

\* C19: a bitmap with both sides at least 1 gets a canvas with both sides at
\* least 1.
C19_SurfaceHasArea ==
    (surface # NoBitmap /\ bitmap.width >= 1 /\ bitmap.height >= 1)
        => surface.width >= 1 /\ surface.height >= 1

\* C20: whenever a result is displayed, a file is held.
C20_ResultImpliesFileHeld ==
    compressedPreview # NoSrc => currentFile # null

====
